---- MODULE Spec2Model ----
(***************************************************************************)
(* Model of src/master/detector.cpp: the standalone master detector        *)
(* (StandaloneMasterDetectorProcess) and the group-backed master detector  *)
(* (ZooKeeperMasterDetectorProcess).  One detector instance is modelled;   *)
(* its kind is chosen in Init.  Every handler of the process is one        *)
(* action (libprocess runs the handlers of one process one at a time).     *)
(***************************************************************************)
EXTENDS Integers, Sequences, FiniteSets, TLC

\* ---------------------------------------------------------------- bounds
MaxHandles == 2      \* promises a run may create (detect() calls that park)
MaxMember == 2       \* memberships the external group hands out in a run

Handles == 1..MaxHandles
Members == 1..MaxMember

\* ------------------------------------------------------- values and types
\* Option<T>: None() is the empty tuple, Some(x) the one-element tuple.
None == <<>>
Some(x) == <<x>>

\* Data a group member may have stored; the last one does not parse as a PID.
DataStrings == {"master@h1:5050", "bogus"}

\* UPID(const string&): a string "id@host:port" parses to that PID, any
\* other string gives the empty (invalid) UPID.
UPIDOf(s) == IF s \in {"master@h1:5050", "master@h2:5050"} THEN s ELSE ""

\* PIDs MasterDetector::create accepts for a pre-appointed standalone detector.
Addresses == {"master@h1:5050", "master@h2:5050"}

\* The Option<UPID> values a caller passes to appoint() and detect(): for
\* the standalone detector the PIDs above, for the group-backed one the
\* PIDs the members' data parses to.
OptionUPIDs ==
  {None} \cup {Some(a) : a \in Addresses} \cup {Some(UPIDOf(d)) : d \in DataStrings}
Callable(k) ==
  IF k = "standalone"
    THEN {None} \cup {Some(a) : a \in Addresses}
    ELSE {None} \cup {Some(UPIDOf(d)) : d \in DataStrings}

\* Failure messages of the leader watch and of the data fetch.
WatchFailures == {"session expired", "auth failed"}
FetchFailures == {"no node"}

\* The baseline of the first watch: detector.detect() without an argument.
NoBaseline == <<0>>

\* No create() call is to be made: the detector was constructed directly.
NoTarget == <<"-">>

\* A future that was never handed out / a promise not yet created.
Unused == [st |-> "unused", prev |-> None, out |-> None]

VARIABLES
  kind,        \* "standalone" or "zookeeper": which process class this is
  phase,       \* "spawned" (initialize() not yet run), "running", "destroyed"
  leader,      \* Option<UPID> leader
  promises,    \* set<Promise<Option<UPID>>*> promises (handle ids)
  error,       \* Option<Error> error (group-backed only)
  futures,     \* handle -> state of the future the caller holds
  watches,     \* outstanding LeaderDetector::detect() requests, oldest first
  fetches,     \* outstanding Group::data() requests (set of member ids)
  groupLeader, \* the external group's elected member, Option<Membership>
  memberData,  \* member id -> data stored for that member
  nextMember,  \* next membership id the group hands out
  last,        \* the detector's handler that ran last, its argument and return value
  fetchFailed, \* history: some Group::data() request of this detector has failed
  master       \* the argument of a MasterDetector::create call not yet made

vars == <<kind, phase, leader, promises, error, futures, watches, fetches,
          groupLeader, memberData, nextMember, last, fetchFailed, master>>

detectorVars == <<leader, promises, error, futures>>
groupVars == <<groupLeader, memberData, nextMember>>

\* last: op is the handler, arg its argument, ret how it returned ("void",
\* or for detect() "value", "failed" or "parked"), val the value or message
\* returned, h the handle of the promise created (0: none).
NoOp == [op |-> "none", arg |-> None, ret |-> "void", val |-> None, h |-> 0]
Did(op, arg) == [op |-> op, arg |-> arg, ret |-> "void", val |-> None, h |-> 0]

\* ------------------------------------------------------ promise helpers
\* Promise::set / Promise::fail / Future::discard act on a pending future
\* only (a future is single-assignment).
Complete(f, st, out) ==
  IF f.st = "pending" THEN [f EXCEPT !.st = st, !.out = out] ELSE f

\* foreach (promise, promises) { promise->set(v); delete promise; }
SetAll_First(fs, ps, v) ==
  [h \in Handles |->
     IF h \in ps /\ (\A g \in ps : h <= g) THEN Complete(fs[h], "value", v) ELSE fs[h]]
SetAll(fs, ps, v) ==
  [h \in Handles |-> IF h \in ps THEN Complete(fs[h], "value", v) ELSE fs[h]]

\* foreach (promise, promises) { promise->fail(m); delete promise; }
FailAll_Generic(fs, ps, m) ==
  [h \in Handles |-> IF h \in ps THEN Complete(fs[h], "failed", Some("failed")) ELSE fs[h]]
FailAll(fs, ps, m) ==
  [h \in Handles |-> IF h \in ps THEN Complete(fs[h], "failed", Some(m)) ELSE fs[h]]

\* foreach (promise, promises) { promise->future().discard(); delete promise; }
DiscardAll_Fail(fs, ps) ==
  [h \in Handles |-> IF h \in ps THEN Complete(fs[h], "failed", Some("destroyed")) ELSE fs[h]]
DiscardAll(fs, ps) ==
  [h \in Handles |-> IF h \in ps THEN Complete(fs[h], "discarded", None) ELSE fs[h]]

\* new Promise<Option<UPID> >(): the next handle not yet handed out.
FreeHandles == {h \in Handles : futures[h].st = "unused"}
NewHandle == CHOOSE h \in FreeHandles : \A g \in FreeHandles : h <= g

\* ------------------------------------------------------------------ Init
Init ==
  /\ kind \in {"standalone", "zookeeper"}
  /\ phase = IF kind = "standalone" THEN "running" ELSE "spawned"
  /\ leader \in IF kind = "standalone"
                  THEN {None} \cup {Some(a) : a \in Addresses}
                  ELSE {None}
  /\ promises = {}
  /\ error = None
  /\ futures = [h \in Handles |-> Unused]
  /\ watches = <<>>
  /\ fetches = {}
  /\ groupLeader = None
  /\ memberData = [m \in Members |-> "bogus"]
  /\ nextMember = 1
  /\ last = NoOp
  /\ fetchFailed = FALSE
  /\ master = NoTarget

\* ------------------------------------------- StandaloneMasterDetectorProcess
\* ~StandaloneMasterDetectorProcess()
StandaloneDestroy ==
  /\ kind = "standalone" /\ phase = "running"
  /\ futures' = DiscardAll(futures, promises)
  /\ promises' = {}
  /\ phase' = "destroyed"
  /\ last' = Did("destroy", None)
  /\ UNCHANGED <<master, fetchFailed, kind, leader, error, watches, fetches, groupVars>>

\* void appoint(const Option<UPID>& _leader)
appoint_NoClear(_leader) ==
  /\ kind = "standalone" /\ phase = "running"
  /\ leader' = _leader
  /\ futures' = SetAll(futures, promises, leader')
  /\ last' = Did("appoint", _leader)
  /\ UNCHANGED <<master, fetchFailed, kind, phase, promises, error, watches, fetches, groupVars>>
appoint_Gated(_leader) ==
  /\ kind = "standalone" /\ phase = "running"
  /\ leader' = _leader
  /\ IF _leader # leader
       THEN futures' = SetAll(futures, promises, leader') /\ promises' = {}
       ELSE UNCHANGED <<futures, promises>>
  /\ last' = Did("appoint", _leader)
  /\ UNCHANGED <<master, fetchFailed, kind, phase, error, watches, fetches, groupVars>>
appoint(_leader) ==
  /\ kind = "standalone" /\ phase = "running"
  /\ leader' = _leader
  /\ futures' = SetAll(futures, promises, leader')
  /\ promises' = {}
  /\ last' = Did("appoint", _leader)
  /\ UNCHANGED <<master, fetchFailed, kind, phase, error, watches, fetches, groupVars>>

\* The tail shared by both detect() methods: return leader if it differs
\* from previous, else create a promise, insert it and return its future.
ReturnOrPark_NoCompare(previous) ==
  /\ last' = [op |-> "detect", arg |-> previous, ret |-> "value",
              val |-> leader, h |-> 0]
  /\ UNCHANGED <<promises, futures>>
ReturnOrPark_Flush(previous) ==
  IF leader # previous
    THEN /\ last' = [op |-> "detect", arg |-> previous, ret |-> "value",
                     val |-> leader, h |-> 0]
         /\ futures' = SetAll(futures, promises, leader)
         /\ promises' = {}
    ELSE /\ FreeHandles # {}
         /\ futures' = [futures EXCEPT ![NewHandle] =
                          [st |-> "pending", prev |-> previous, out |-> None]]
         /\ promises' = promises \cup {NewHandle}
         /\ last' = [op |-> "detect", arg |-> previous, ret |-> "parked",
                     val |-> None, h |-> NewHandle]
ReturnOrPark(previous) ==
  IF leader # previous
    THEN /\ last' = [op |-> "detect", arg |-> previous, ret |-> "value",
                     val |-> leader, h |-> 0]
         /\ UNCHANGED <<promises, futures>>
    ELSE /\ FreeHandles # {}
         /\ futures' = [futures EXCEPT ![NewHandle] =
                          [st |-> "pending", prev |-> previous, out |-> None]]
         /\ promises' = promises \cup {NewHandle}
         /\ last' = [op |-> "detect", arg |-> previous, ret |-> "parked",
                     val |-> None, h |-> NewHandle]

\* Future<Option<UPID> > StandaloneMasterDetectorProcess::detect(previous)
StandaloneDetect_AlwaysPark(previous) ==
  /\ kind = "standalone" /\ phase = "running"
  /\ FreeHandles # {}
  /\ futures' = [futures EXCEPT ![NewHandle] =
                   [st |-> "pending", prev |-> previous, out |-> None]]
  /\ promises' = promises \cup {NewHandle}
  /\ last' = [op |-> "detect", arg |-> previous, ret |-> "parked",
              val |-> None, h |-> NewHandle]
  /\ UNCHANGED <<master, fetchFailed, kind, phase, leader, error, watches, fetches, groupVars>>
StandaloneDetect(previous) ==
  /\ kind = "standalone" /\ phase = "running"
  /\ ReturnOrPark(previous)
  /\ UNCHANGED <<master, fetchFailed, kind, phase, leader, error, watches, fetches, groupVars>>

\* -------------------------------------------- ZooKeeperMasterDetectorProcess
\* detector.detect(b).onAny(defer(self(), &Self::detected, lambda::_1))
Arm(b) == [base |-> b, st |-> "armed", failed |-> FALSE, msg |-> "", res |-> None]

\* "Keep trying to detect leadership changes": the handled watch is gone
\* (rest) and one new watch with baseline b is requested.
Rearm_Twice(rest, b) == Append(Append(rest, Arm(b)), Arm(b))
Rearm_Stale(rest, b) == Append(rest, Arm(None))
Rearm(rest, b) == Append(rest, Arm(b))

\* ~ZooKeeperMasterDetectorProcess()
ZooKeeperDestroy ==
  /\ kind = "zookeeper" /\ phase = "running"
  /\ futures' = DiscardAll(futures, promises)
  /\ promises' = {}
  /\ phase' = "destroyed"
  /\ last' = Did("destroy", None)
  /\ UNCHANGED <<master, fetchFailed, kind, leader, error, watches, fetches, groupVars>>

\* void initialize()
initialize ==
  /\ kind = "zookeeper" /\ phase = "spawned"
  /\ phase' = "running"
  /\ watches' = Append(watches, Arm(NoBaseline))
  /\ last' = Did("initialize", None)
  /\ UNCHANGED <<master, fetchFailed, kind, detectorVars, fetches, groupVars>>

\* Future<Option<UPID> > ZooKeeperMasterDetectorProcess::detect(previous)
ZooKeeperDetect_NoErrorCheck(previous) ==
  /\ kind = "zookeeper" /\ phase = "running"
  /\ ReturnOrPark(previous)
  /\ UNCHANGED <<master, fetchFailed, kind, phase, leader, error, watches, fetches, groupVars>>
ZooKeeperDetect(previous) ==
  /\ kind = "zookeeper" /\ phase = "running"
  /\ IF error # None
       THEN /\ last' = [op |-> "detect", arg |-> previous, ret |-> "failed",
                        val |-> error, h |-> 0]
            /\ UNCHANGED <<promises, futures>>
       ELSE ReturnOrPark(previous)
  /\ UNCHANGED <<master, fetchFailed, kind, phase, leader, error, watches, fetches, groupVars>>

\* The sequence s without its i-th element.
RemoveAt(s, i) == SubSeq(s, 1, i - 1) \o SubSeq(s, i + 1, Len(s))

\* void detected(const Future<Option<Group::Membership> >& _leader):
\* the handler deferred on the i-th watch, which has completed.
detected_EagerReset(i) ==
  /\ kind = "zookeeper" /\ phase = "running"
  /\ i \in 1..Len(watches) /\ watches[i].st = "done"
  /\ LET _leader == watches[i]
         rest == RemoveAt(watches, i)
     IN IF _leader.failed
          THEN /\ error' = Some(_leader.msg)
               /\ leader' = None
               /\ futures' = FailAll(futures, promises, _leader.msg)
               /\ promises' = {}
               /\ watches' = rest
               /\ last' = [Did("detected", None) EXCEPT !.ret = "failed",
                                                        !.val = Some(_leader.msg)]
               /\ UNCHANGED fetches
          ELSE /\ leader' = None
               /\ futures' = SetAll(futures, promises, leader')
               /\ promises' = {}
               /\ IF _leader.res = None
                    THEN UNCHANGED fetches
                    ELSE fetches' = fetches \cup {_leader.res[1]}
               /\ watches' = Rearm(rest, _leader.res)
               /\ last' = Did("detected", _leader.res)
               /\ UNCHANGED error
  /\ UNCHANGED <<master, fetchFailed, kind, phase, groupVars>>
detected(i) ==
  /\ kind = "zookeeper" /\ phase = "running"
  /\ i \in 1..Len(watches) /\ watches[i].st = "done"
  /\ LET _leader == watches[i]
         rest == RemoveAt(watches, i)
     IN IF _leader.failed
          THEN /\ error' = Some(_leader.msg)
               /\ leader' = None
               /\ futures' = FailAll(futures, promises, _leader.msg)
               /\ promises' = {}
               /\ watches' = rest
               /\ last' = [Did("detected", None) EXCEPT !.ret = "failed",
                                                        !.val = Some(_leader.msg)]
               /\ UNCHANGED fetches
          ELSE /\ IF _leader.res = None
                    THEN /\ leader' = None
                         /\ futures' = SetAll(futures, promises, leader')
                         /\ promises' = {}
                         /\ UNCHANGED fetches
                    ELSE /\ fetches' = fetches \cup {_leader.res[1]}
                         /\ UNCHANGED <<leader, futures, promises>>
               /\ watches' = Rearm(rest, _leader.res)
               /\ last' = Did("detected", _leader.res)
               /\ UNCHANGED error
  /\ UNCHANGED <<master, fetchFailed, kind, phase, groupVars>>

\* void fetched(const Future<string>& data): the handler deferred on the
\* group->data(m) request, which has failed.
fetchedFailure_Terminal(m, msg) ==
  /\ kind = "zookeeper" /\ phase = "running"
  /\ m \in fetches
  /\ fetches' = fetches \ {m}
  /\ error' = Some(msg)
  /\ leader' = None
  /\ futures' = FailAll(futures, promises, msg)
  /\ promises' = {}
  /\ last' = [Did("fetched", Some(m)) EXCEPT !.ret = "failed", !.val = Some(msg)]
  /\ fetchFailed' = TRUE
  /\ UNCHANGED <<master, kind, phase, watches, groupVars>>
fetchedFailure(m, msg) ==
  /\ kind = "zookeeper" /\ phase = "running"
  /\ m \in fetches
  /\ fetches' = fetches \ {m}
  /\ leader' = None
  /\ futures' = FailAll(futures, promises, msg)
  /\ promises' = {}
  /\ last' = [Did("fetched", Some(m)) EXCEPT !.ret = "failed", !.val = Some(msg)]
  /\ fetchFailed' = TRUE
  /\ UNCHANGED <<master, kind, phase, error, watches, groupVars>>

\* void fetched(const Future<string>& data): the request for m has
\* delivered the data stored for m.
fetchedData(m) ==
  /\ kind = "zookeeper" /\ phase = "running"
  /\ m \in fetches
  /\ fetches' = fetches \ {m}
  /\ leader' = Some(UPIDOf(memberData[m]))
  /\ futures' = SetAll(futures, promises, leader')
  /\ promises' = {}
  /\ last' = [Did("fetched", Some(m)) EXCEPT !.val = Some(memberData[m])]
  /\ UNCHANGED <<master, fetchFailed, kind, phase, error, watches, groupVars>>

\* ------------------------------------ the external Group and LeaderDetector
\* The group elects a new member (a fresh membership with data d).
GroupElect(d) ==
  /\ kind = "zookeeper" /\ phase # "destroyed"
  /\ nextMember <= MaxMember
  /\ groupLeader' = Some(nextMember)
  /\ memberData' = [memberData EXCEPT ![nextMember] = d]
  /\ nextMember' = nextMember + 1
  /\ UNCHANGED <<master, fetchFailed, kind, phase, detectorVars, watches, fetches, last>>

\* The leading member departs and no member is left.
GroupVacate ==
  /\ kind = "zookeeper" /\ phase # "destroyed"
  /\ groupLeader # None
  /\ groupLeader' = None
  /\ UNCHANGED <<master, fetchFailed, kind, phase, detectorVars, watches, fetches,
                 memberData, nextMember, last>>

\* LeaderDetector::detect(previous) completes once the elected member
\* differs from the baseline (the first watch has none).
WatchComplete(i) ==
  /\ kind = "zookeeper" /\ phase = "running"
  /\ i \in 1..Len(watches) /\ watches[i].st = "armed"
  /\ watches[i].base # groupLeader
  /\ watches' = [watches EXCEPT ![i] = [@ EXCEPT !.st = "done", !.res = groupLeader]]
  /\ UNCHANGED <<master, fetchFailed, kind, phase, detectorVars, fetches, groupVars, last>>

\* LeaderDetector::detect(previous) fails (a non-retryable error).
WatchFail(i, msg) ==
  /\ kind = "zookeeper" /\ phase = "running"
  /\ i \in 1..Len(watches) /\ watches[i].st = "armed"
  /\ watches' = [watches EXCEPT ![i] =
                   [@ EXCEPT !.st = "done", !.failed = TRUE, !.msg = msg]]
  /\ UNCHANGED <<master, fetchFailed, kind, phase, detectorVars, fetches, groupVars, last>>

\* ------------------------------------------------------------------ Next
Next ==
  \/ StandaloneDestroy
  \/ \E l \in Callable(kind) : appoint(l)
  \/ \E p \in Callable(kind) : StandaloneDetect(p)
  \/ ZooKeeperDestroy
  \/ initialize
  \/ \E p \in Callable(kind) : ZooKeeperDetect(p)
  \/ \E i \in 1..Len(watches) : detected(i)
  \/ \E m \in fetches, msg \in FetchFailures : fetchedFailure(m, msg)
  \/ \E m \in fetches : fetchedData(m)
  \/ \E d \in DataStrings : GroupElect(d)
  \/ GroupVacate
  \/ \E i \in 1..Len(watches) : WatchComplete(i)
  \/ \E i \in 1..Len(watches), msg \in WatchFailures : WatchFail(i, msg)

Spec == Init /\ [][Next]_vars

\* The handlers deferred on a completed watch or fetch are eventually run
\* (libprocess runs every process that has events queued), the elector
\* eventually answers a watch whose baseline differs from the elected
\* member, and the group eventually answers a data request.
Fairness ==
  /\ WF_vars(\E i \in 1..Len(watches) : WatchComplete(i))
  /\ WF_vars(\E i \in 1..Len(watches) : detected(i))
  /\ WF_vars(\E m \in fetches :
              fetchedData(m) \/ \E msg \in FetchFailures : fetchedFailure(m, msg))

FairSpec == Init /\ [][Next]_vars /\ Fairness

\* ------------------------------------------------- MasterDetector::create
\* A target string is modelled as the sequence of its tokens (the string is
\* their concatenation), so that find(...) == 0, substr and trim can be
\* computed.
RECURSIVE Str(_)
Str(t) == IF t = <<>> THEN "" ELSE t[1] \o Str(Tail(t))

\* master.find(prefix) == 0
StartsWith(t, prefix) == t # <<>> /\ t[1] = prefix

\* strings::trim: leading and trailing whitespace is removed.
Whitespace == {" ", "\n"}
RECURSIVE TrimLeft(_)
TrimLeft(t) ==
  IF t # <<>> /\ t[1] \in Whitespace THEN TrimLeft(Tail(t)) ELSE t
RECURSIVE TrimRight(_)
TrimRight(t) ==
  IF t # <<>> /\ t[Len(t)] \in Whitespace
    THEN TrimRight(SubSeq(t, 1, Len(t) - 1)) ELSE t
Trim(t) == TrimRight(TrimLeft(t))

\* URL::parse: "zk://[auth@]servers/path"; anything else is an error.
AuthTokens == {"user:pw@"}
ServerTokens == {"zk1:2181", "zk1:2181,zk2:2181"}
PathTokens == {"/", "/mesos", "/mesos/prod"}
URLParse(t) ==
  LET rest == Tail(t)
      body == IF rest # <<>> /\ rest[1] \in AuthTokens THEN Tail(rest) ELSE rest
  IN IF Len(body) = 2 /\ body[1] \in ServerTokens /\ body[2] \in PathTokens
       THEN [error |-> FALSE, servers |-> body[1], path |-> body[2]]
       ELSE [error |-> TRUE, servers |-> "", path |-> ""]

\* os::read(path): the files of the host.
OsRead(path) ==
  CASE path = "/etc/mesos/zk" ->
         [error |-> FALSE, data |-> <<"zk://", "zk1:2181", "/mesos", "\n">>]
    [] path = "/etc/mesos/zkroot" ->
         [error |-> FALSE, data |-> <<" ", "zk://", "zk1:2181", "/", "\n">>]
    [] path = "/etc/mesos/master" ->
         [error |-> FALSE, data |-> <<"master@", "h1:5050", "\n">>]
    [] path = "/etc/mesos/none" ->
         [error |-> FALSE, data |-> <<"\n">>]
    [] OTHER -> [error |-> TRUE, data |-> <<>>]

\* The arguments create() is called with.
Targets ==
  { <<>>,
    <<"zk://", "zk1:2181", "/mesos">>, <<"zk://", "zk1:2181", "/">>,
    <<"zk://", "zk1:2181,zk2:2181", "/mesos/prod">>,
    <<"zk://", "user:pw@", "zk1:2181", "/mesos">>,
    <<"zk://", "user:pw@", "zk1:2181", "/">>,
    <<"zk://">>, <<"zk://", "/mesos">>,
    <<"file://", "/etc/mesos/zk">>, <<"file://", "/etc/mesos/zkroot">>,
    <<"file://", "/etc/mesos/master">>, <<"file://", "/etc/mesos/none">>,
    <<"file://", "/missing">>,
    <<"master@", "h1:5050">>, <<"master@", "h2:5050">>, <<"h1:5050">>,
    <<"h2:5050">>, <<"master@", "nowhere">>, <<"nowhere">> }

RootPathError == "Expecting a (chroot) path for ZooKeeper ('/' is not supported)"

Created(k, l) == [ok |-> TRUE, kind |-> k, leader |-> l, msg |-> ""]
NotCreated(m) == [ok |-> FALSE, kind |-> "none", leader |-> None, msg |-> m]

\* The zk:// branch of create().
CreateZooKeeper_AllowRoot(t) ==
  LET url == URLParse(t)
  IN IF url.error THEN NotCreated("Expecting 'zk://servers/path'")
     ELSE Created("zookeeper", None)
CreateZooKeeper(t) ==
  LET url == URLParse(t)
  IN IF url.error THEN NotCreated("Expecting 'zk://servers/path'")
     ELSE IF url.path = "/" THEN NotCreated(RootPathError)
     ELSE Created("zookeeper", None)

\* Try<MasterDetector*> MasterDetector::create(const string& master)
RECURSIVE create(_)
create(t) ==
  IF t = <<>> THEN Created("standalone", None)
  ELSE IF StartsWith(t, "zk://") THEN CreateZooKeeper(t)
  ELSE IF StartsWith(t, "file://")
    THEN LET path == Str(Tail(t))
             read == OsRead(path)
         IN IF read.error
              THEN NotCreated("Failed to read from file at '" \o path \o "'")
              ELSE create(Trim(read.data))
  ELSE LET pid == IF StartsWith(t, "master@")
                    THEN UPIDOf(Str(t))
                    ELSE UPIDOf("master@" \o Str(t))
       IN IF pid = "" THEN NotCreated("Failed to parse '" \o Str(t) \o "'")
          ELSE Created("standalone", Some(pid))

\* A caller is about to call create(master); nothing is constructed yet.
InitCreate ==
  /\ master \in Targets
  /\ kind = "none"
  /\ phase = "unconstructed"
  /\ leader = None
  /\ promises = {}
  /\ error = None
  /\ futures = [h \in Handles |-> Unused]
  /\ watches = <<>>
  /\ fetches = {}
  /\ groupLeader = None
  /\ memberData = [m \in Members |-> "bogus"]
  /\ nextMember = 1
  /\ last = NoOp
  /\ fetchFailed = FALSE

\* The call create(master): on success the detector process is spawned
\* (the standalone one has no initialize() of its own), on error nothing
\* is constructed.
CallCreate ==
  /\ phase = "unconstructed"
  /\ LET r == create(master)
     IN /\ kind' = r.kind
        /\ leader' = r.leader
        /\ phase' = IF ~r.ok THEN "failed"
                    ELSE IF r.kind = "standalone" THEN "running" ELSE "spawned"
        /\ last' = IF r.ok THEN Did("create", None)
                   ELSE [Did("create", None) EXCEPT !.ret = "failed",
                                                    !.val = Some(r.msg)]
  /\ master' = NoTarget
  /\ UNCHANGED <<promises, error, futures, watches, fetches, groupVars,
                 fetchFailed>>

NextCreate ==
  \/ CallCreate
  \/ Next

SpecCreate == InitCreate /\ [][NextCreate]_vars

TypeOK ==
  /\ kind \in {"standalone", "zookeeper", "none"}
  /\ phase \in {"unconstructed", "failed", "spawned", "running", "destroyed"}
  /\ leader \in OptionUPIDs
  /\ promises \subseteq Handles
  /\ fetches \subseteq Members

\* ================================================================ claims
Resolved(f) == f.st \in {"value", "failed"}

\* ---- C1 (as stated): no detect(previous) call, of either detector, is
\* ever resolved with a leader value equal to its previous: neither an
\* immediate return nor the later fulfilment of a parked call.
C1_NeverResolvedWithPrevious ==
  /\ (last.op = "detect" /\ last.ret = "value") => last.val # last.arg
  /\ \A h \in Handles : futures[h].st = "value" => futures[h].out # futures[h].prev

\* ---- C1 (amended): a detect(previous) call that returns immediately
\* returns the current leader, and that value differs from previous (a
\* parked call may later be fulfilled with a value equal to previous).
C1_ImmediateReturnDiffers ==
  (last.op = "detect" /\ last.ret = "value") =>
    (last.val = leader /\ last.val # last.arg)

C1_Witness ==
  /\ kind = "zookeeper" /\ last.op = "detect" /\ last.ret = "value"
  /\ last.arg # None /\ last.val # None
  /\ \E h \in Handles : futures[h].st = "value" /\ futures[h].out = futures[h].prev

\* ---- C2 (as stated): detect(X) parks iff the current leader equals X,
\* and a parked detect(X) is resolved exactly in the steps in which the
\* leader changes to a value Y # X.
C2_ParksIffEqualResolvedIffChanged ==
  [][ /\ (last'.op = "detect") => (last'.ret = "parked" <=> leader' = last'.arg)
      /\ \A h \in Handles :
           futures[h].st = "pending" =>
             (Resolved(futures'[h]) <=> leader' # futures[h].prev) ]_vars

\* ---- C2 (amended): detect(X) parks iff no terminal error is set and the
\* current leader equals X; a call stays parked only while the leader
\* still equals X and no terminal error is set, so every change of the
\* leader to a Y # X resolves it (but so may an event that leaves the
\* leader equal to X).
C2_ParksIffEqualAndOperational ==
  /\ (last.op = "detect") =>
       (last.ret = "parked" <=> (error = None /\ leader = last.arg))
  /\ \A h \in Handles :
       futures[h].st = "pending" => (error = None /\ futures[h].prev = leader)

C2_Witness ==
  /\ kind = "zookeeper" /\ last.op = "detect" /\ last.ret = "parked"
  /\ leader # None
  /\ \E h \in Handles : futures[h].st = "value" /\ futures[h].out = leader
                         /\ futures[h].prev # leader

\* ---- C3: in the group-backed detector, in every state in which the
\* terminal error is set the leader is absent.
C3_ErrorForcesLeaderAbsent ==
  error # None => leader = None

\* ---- C4: when a watch fails, every detect() pending at that moment is
\* failed with the failure's message, which becomes the terminal error and
\* never changes; every detect() made from then on fails immediately with
\* that message.
C4_TerminalErrorIsSticky ==
  [][ /\ (error = None /\ error' # None) =>
           /\ \E i \in 1..Len(watches) :
                watches[i].failed /\ error' = Some(watches[i].msg)
           /\ \A h \in promises :
                futures'[h].st = "failed" /\ futures'[h].out = error'
           /\ promises' = {}
      /\ error # None => error' = error
      /\ (error' # None /\ last'.op = "detect") =>
           (last'.ret = "failed" /\ last'.val = error' /\ last'.h = 0
            /\ promises' = {}) ]_vars

C4_Witness ==
  /\ error # None /\ last.op = "detect" /\ last.ret = "failed"
  /\ last.val = error /\ last.arg # None
  /\ \A h \in Handles : futures[h].st = "failed" /\ futures[h].out = error

\* ---- C5: a failed data fetch sets the leader to absent, fails every
\* pending waiter with the fetch failure's message and empties the waiter
\* set, and changes neither the terminal error (unset stays unset) nor the
\* watch (which stays outstanding); a fetch that
\* succeeds sets the leader to the PID parsed from the member's data and
\* fulfils every pending waiter with it; and while no terminal error is set
\* no detect() call fails.
FetchedStep == fetches' # fetches /\ last'.op = "fetched"

C5_FetchFailureIsTransient ==
  [][ /\ (FetchedStep /\ last'.ret = "failed") =>
           /\ leader' = None
           /\ last'.val \in {Some(m) : m \in FetchFailures}
           /\ \A h \in promises :
                futures'[h].st = "failed" /\ futures'[h].out = last'.val
           /\ promises' = {}
           /\ error' = error /\ watches' = watches
           /\ error = None => (error' = None /\ Len(watches') = 1)
      /\ (FetchedStep /\ last'.ret = "void") =>
           /\ leader' = Some(UPIDOf(memberData[last'.arg[1]]))
           /\ \A h \in promises :
                futures'[h].st = "value" /\ futures'[h].out = leader'
           /\ promises' = {}
           /\ error' = error /\ watches' = watches
      /\ (error' = None /\ last'.op = "detect") => last'.ret # "failed" ]_vars

\* After a fetch failure that failed waiter 1, the watch went on, waiter 2
\* parked, and the next member's fetch fulfilled it.
C5_Witness ==
  /\ error = None /\ last.op = "fetched" /\ last.ret = "void"
  /\ futures[1].st = "failed" /\ futures[1].out \in {Some(m) : m \in FetchFailures}
  /\ futures[2].st = "value" /\ futures[2].out = leader /\ leader = Some("master@h1:5050")
  /\ Len(watches) = 1

\* ---- C6: destroying a detector of either kind discards every pending
\* detect() call (none gets a value or a failure), leaves the futures
\* already completed as they are and leaves the waiter set empty.
C6_DestroyDiscardsAll ==
  [][ (phase # "destroyed" /\ phase' = "destroyed") =>
        /\ \A h \in promises : futures'[h].st = "discarded"
        /\ \A h \in Handles \ promises : futures'[h] = futures[h]
        /\ promises' = {} ]_vars

C6_Witness ==
  /\ phase = "destroyed" /\ kind = "zookeeper" /\ promises = {}
  /\ \A h \in Handles : futures[h].st = "discarded"

\* ---- C7: a handle is in promises exactly while its future is pending;
\* an outcome, once given, is never changed; after destruction no future is
\* pending.
C7_HandleInvariant ==
  /\ \A h \in Handles : h \in promises <=> futures[h].st = "pending"
  /\ phase = "destroyed" => \A h \in Handles : futures[h].st # "pending"

C7_ExactlyOneOutcome ==
  /\ C7_HandleInvariant
  /\ [][ /\ C7_HandleInvariant'
          /\ \A h \in Handles :
               futures[h].st \in {"value", "failed", "discarded"} =>
                 futures'[h] = futures[h] ]_vars

C7_Witness ==
  /\ phase = "destroyed" /\ kind = "zookeeper"
  /\ futures[1].st = "failed" /\ futures[2].st = "discarded"

\* ---- C8: in the standalone detector appoint(L) always sets the leader
\* to L, fulfils every pending waiter with L and empties the waiter set,
\* also when the leader already was L.
C8_AppointIsUnconditional ==
  [][ (kind = "standalone" /\ last'.op = "appoint") =>
        /\ leader' = last'.arg
        /\ \A h \in promises :
             futures'[h].st = "value" /\ futures'[h].out = last'.arg
        /\ promises' = {} ]_vars

\* Two waiters parked on L were fulfilled with L by a re-appointment of L.
C8_Witness ==
  /\ kind = "standalone" /\ last.op = "appoint" /\ last.arg # None
  /\ leader = last.arg /\ promises = {}
  /\ \A h \in Handles : /\ futures[h].st = "value"
                         /\ futures[h].prev = last.arg
                         /\ futures[h].out = last.arg

\* ---- C9: in the standalone detector detect(p) returns the current
\* leader at once and changes neither promises nor any future whenever the
\* leader differs from p; so detect(None) right after appoint(A) returns A.
C9_StandaloneImmediateReturn ==
  [][ /\ (kind = "standalone" /\ last'.op = "detect" /\ leader # last'.arg) =>
           /\ last'.ret = "value" /\ last'.val = leader /\ last'.h = 0
           /\ UNCHANGED <<leader, promises, futures>>
      /\ (kind = "standalone" /\ last.op = "appoint" /\ last.arg # None
            /\ last'.op = "detect" /\ last'.arg = None) =>
           (last'.ret = "value" /\ last'.val = last.arg) ]_vars

C9_Witness ==
  /\ kind = "standalone" /\ last.op = "detect" /\ last.arg = None
  /\ last.ret = "value" /\ last.val = Some("master@h2:5050")
  /\ futures[1].st = "value" /\ futures[1].out = last.val

\* ---- C10: in the group-backed detector at most one watch is outstanding
\* (armed, or completed and not yet handled by detected); none before
\* initialize has run.
C10_AtMostOneWatch ==
  /\ Len(watches) <= 1
  /\ phase = "spawned" => Len(watches) = 0

C10_Witness ==
  /\ Len(watches) = 1 /\ watches[1].st = "done" /\ watches[1].base # NoBaseline
  /\ last.op = "detected" /\ fetches # {}

\* ---- C11 (as stated): against a group that never had a member a parked
\* detect(None) is eventually resolved with absent (unless a member joins,
\* the watch fails or the detector is destroyed first).
Pending(h, p) == futures[h].st = "pending" /\ futures[h].prev = p
Gone(h) == futures[h].st \in {"failed", "discarded"}
Got(h, v) == futures[h].st = "value" /\ futures[h].out = v

C11_DetectNoneResolvesToAbsent ==
  \A h \in Handles :
    (kind = "zookeeper" /\ Pending(h, None) /\ nextMember = 1)
      ~> (Got(h, None) \/ Gone(h) \/ nextMember > 1)

\* ---- C11 (amended): (1) a detect(None) parked before the detector has
\* handled its first watch result is resolved with absent when the group
\* has no member; (2) a detect(None) parked before the detector has learnt
\* of the first member is resolved with the PID parsed from that member's
\* data; (3) a detect(Some(PID)) parked while the detector's last
\* observation is that member is resolved with absent once the member has
\* departed.  Each holds unless a fetch or the watch fails, the detector
\* is destroyed or the group changes again first.
FirstWatchUnhandled ==
  Len(watches) = 1 /\ watches[1].base = NoBaseline /\ ~watches[1].failed
MemberUnknown ==
  Len(watches) = 1 /\ watches[1].st = "armed"
    /\ watches[1].base \in {NoBaseline, None}
MemberObserved(m) ==
  Len(watches) = 1 /\ watches[1].base = Some(m) /\ ~watches[1].failed

C11_Scenario ==
  \A h \in Handles :
    /\ (kind = "zookeeper" /\ Pending(h, None) /\ nextMember = 1
          /\ FirstWatchUnhandled)
         ~> (Got(h, None) \/ Gone(h) \/ nextMember > 1)
    /\ (kind = "zookeeper" /\ Pending(h, None) /\ groupLeader = Some(1)
          /\ MemberUnknown)
         ~> (Got(h, Some(UPIDOf(memberData[1]))) \/ Gone(h)
              \/ groupLeader # Some(1))
    /\ (kind = "zookeeper" /\ Pending(h, leader) /\ leader # None
          /\ groupLeader = None /\ nextMember = 2 /\ MemberObserved(1))
         ~> (Got(h, None) \/ Gone(h) \/ nextMember > 2)

\* All three steps of the scenario have happened, in order: handle 1 got
\* absent, handle 2 the member's PID, and the departure was handled.
C11_Witness ==
  /\ kind = "zookeeper" /\ nextMember = 2 /\ groupLeader = None
  /\ Got(1, None) /\ futures[1].prev = None
  /\ Got(2, Some("master@h1:5050")) /\ futures[2].prev = None
  /\ last.op = "detected" /\ last.arg = None /\ leader = None
  /\ watches = <<Arm(None)>>

\* ---- C12: in the standalone detector no detect() call ever ends in a
\* failure: every future is unused, pending, resolved with a value or
\* discarded, and no call returns a failure.
C12_StandaloneNeverFails ==
  kind = "standalone" =>
    /\ \A h \in Handles : futures[h].st # "failed"
    /\ last.ret # "failed"
    /\ error = None

C12_Witness ==
  /\ kind = "standalone" /\ phase = "destroyed"
  /\ futures[1].st = "value" /\ futures[2].st = "discarded"

\* ---- C13: create() called with a zk:// URI that parses to the root path
\* "/" fails with the configuration error and constructs nothing (no
\* detector, no watch); called with a zk:// URI that parses to another
\* path it constructs a group-backed detector (spawned, leader absent).
C13_RootPathRejected ==
  /\ (phase = "failed" =>
        (kind = "none" /\ watches = <<>> /\ fetches = {} /\ promises = {}))
  /\ [][ ( /\ phase = "unconstructed" /\ phase' # "unconstructed"
           /\ StartsWith(master, "zk://") /\ ~URLParse(master).error ) =>
            IF URLParse(master).path = "/"
              THEN /\ phase' = "failed" /\ kind' = "none"
                   /\ last'.ret = "failed" /\ last'.val = Some(RootPathError)
                   /\ watches' = <<>>
              ELSE /\ phase' = "spawned" /\ kind' = "zookeeper"
                   /\ last'.ret = "void"
                   /\ leader' = None /\ error' = None ]_vars

C13_Witness ==
  /\ phase = "failed" /\ last.op = "create" /\ last.val = Some(RootPathError)
  /\ watches = <<>>

\* ---- C14: the terminal error changes only in a detected step that
\* handles a failed watch, which sets it (from unset) to that watch's
\* message; no other step sets, clears or replaces it.
DetectedStep ==
  watches # <<>> /\ watches[1].st = "done" /\ watches' # watches

C14_OnlyFailedWatchSetsError ==
  [][ error' # error =>
        /\ error = None
        /\ DetectedStep /\ watches[1].failed
        /\ error' = Some(watches[1].msg)
        /\ last'.op = "detected" /\ last'.ret = "failed" ]_vars

\* A fetch failed after the terminal error and left it as it was.
C14_Witness ==
  /\ error \in {Some(m) : m \in WatchFailures}
  /\ last.op = "fetched" /\ last.ret = "failed" /\ last.val # error

\* ---- C15: a detected step for a watch that did not fail leaves exactly
\* one watch, armed with the membership just observed as baseline, in the
\* step that dispatches the fetch; a detected step for a failed watch
\* leaves no watch, and while the terminal error is set no watch is
\* outstanding (so no detected step can follow).
C15_RearmOncePerDetection ==
  /\ (error # None => watches = <<>>)
  /\ [][ /\ (DetectedStep /\ ~watches[1].failed) =>
              /\ watches' = <<Arm(watches[1].res)>>
              /\ (watches[1].res # None =>
                   (watches[1].res[1] \notin fetches
                    /\ fetches' = fetches \cup {watches[1].res[1]}))
         /\ (DetectedStep /\ watches[1].failed) =>
              (watches' = <<>> /\ error' # None)
         /\ (error # None => ~DetectedStep) ]_vars

C15_Witness ==
  /\ last.op = "detected" /\ watches = <<Arm(Some(2))>> /\ fetches = {1, 2}

\* ---- C16: a detected step for a watch that reports a leading member
\* changes neither leader, error, promises nor any future; it adds the
\* member's fetch and re-arms the watch.  A pending future is fulfilled or
\* failed only by appoint, a no-leader detection, a fetch completion or a
\* failed watch.
C16_MemberDetectionFulfilsNothing ==
  [][ /\ (DetectedStep /\ ~watches[1].failed /\ watches[1].res # None) =>
           /\ UNCHANGED <<leader, error, promises, futures>>
           /\ fetches' = fetches \cup {watches[1].res[1]}
           /\ watches' = <<Arm(watches[1].res)>>
      /\ (\E h \in Handles : futures[h].st = "pending" /\ Resolved(futures'[h])) =>
           \/ kind = "standalone" /\ last'.op = "appoint"
           \/ FetchedStep
           \/ DetectedStep /\ (watches[1].failed \/ watches[1].res = None) ]_vars

\* Member 2 was detected while a waiter was parked on member 1's PID: the
\* waiter is still pending and the cached leader still is member 1's.
C16_Witness ==
  /\ last.op = "detected" /\ last.arg = Some(2)
  /\ leader = Some("master@h1:5050") /\ promises # {}
  /\ 2 \in fetches /\ watches = <<Arm(Some(2))>>

\* ---- C17: every fulfilling step (appoint, no-leader detection, fetch
\* completion, failed watch) gives all waiters pending before it the same
\* outcome, namely the leader the handler stored or the failure message it
\* received, and leaves promises empty.
FulfillingStep ==
  \/ kind = "standalone" /\ last'.op = "appoint"
  \/ FetchedStep
  \/ DetectedStep /\ (watches[1].failed \/ watches[1].res = None)

C17_UniformFulfilment ==
  [][ FulfillingStep =>
        /\ promises' = {}
        /\ \A h \in promises :
             \/ futures'[h].st = "value" /\ futures'[h].out = leader'
                  /\ last'.ret = "void"
             \/ futures'[h].st = "failed" /\ futures'[h].out = last'.val
                  /\ last'.ret = "failed"
        /\ \A h, g \in promises :
             futures'[h].st = futures'[g].st /\ futures'[h].out = futures'[g].out ]_vars

C17_Witness ==
  /\ last.op = "detected" /\ last.ret = "failed" /\ promises = {}
  /\ \A h \in Handles : futures[h].st = "failed" /\ futures[h].out = last.val

\* ---- C18: in the group-backed detector with no terminal error, when
\* every fetch dispatched so far has completed successfully and the watch
\* is armed (no completion waits to be handled), the cached leader is the
\* PID of the member the last handled detected event reported (the
\* baseline of the armed watch), or absent if it reported no leader.
C18_NoStaleLeader ==
  ( /\ kind = "zookeeper" /\ phase = "running" /\ error = None
    /\ fetches = {} /\ ~fetchFailed
    /\ Len(watches) = 1 /\ watches[1].st = "armed"
    /\ watches[1].base # NoBaseline ) =>
      leader = IF watches[1].base = None
                 THEN None
                 ELSE Some(UPIDOf(memberData[watches[1].base[1]]))

\* ---- C19: in the group-backed detector, while the terminal error is
\* set promises is empty and no future is pending.
C19_NoWaitersAfterError ==
  error # None =>
    (promises = {} /\ \A h \in Handles : futures[h].st # "pending")

\* A fetch completed after the terminal error and touched no waiter.
C19_Witness ==
  /\ error # None /\ last.op = "fetched" /\ promises = {}
  /\ \E h \in Handles : futures[h].st = "failed" /\ futures[h].out = error

\* ---- C20: a detect() step changes neither leader nor error nor the
\* watch nor the fetches, and gives no outcome to a future; it either
\* leaves promises and futures as they are or adds exactly one new pending
\* handle.
DetectStep == last'.op = "detect" /\ last' # last

C20_DetectFrame ==
  [][ DetectStep =>
        /\ UNCHANGED <<master, fetchFailed, kind, phase, leader, error, watches, fetches, groupVars>>
        /\ \/ UNCHANGED <<promises, futures>> /\ last'.ret \in {"value", "failed"}
           \/ /\ last'.ret = "parked"
              /\ last'.h \in Handles \ promises
              /\ futures[last'.h].st = "unused"
              /\ futures'[last'.h].st = "pending"
              /\ promises' = promises \cup {last'.h}
              /\ \A g \in Handles \ {last'.h} : futures'[g] = futures[g] ]_vars

C20_Witness ==
  /\ kind = "zookeeper" /\ last.op = "detect" /\ last.ret = "parked"
  /\ last.h = 2 /\ promises = {1, 2}

====
